---- MODULE Spec2Model ----
(***************************************************************************)
(* Abstract regular expressions (reity/are): the expression tree, the      *)
(* mutually recursive matcher are._match, the automaton builder            *)
(* are.to_nfa, and the entry point are.__call__ with its optional          *)
(* compiled cache.                                                         *)
(***************************************************************************)
EXTENDS Integers, Sequences, FiniteSets, TLC

\* ------------------------------------------------------------------ bounds
MaxNodes == 4          \* trees have at most this many nodes
MaxLen == 3            \* abstract strings have at most this many symbols
MaxCompiles == 2       \* compile() is called at most this many times

Threads == {"t1", "t2"}  \* the threads that share one instance

Alphabet == {1, 2}     \* the symbols of literals and of abstract strings

\* --------------------------------------------------------- expression tree
\* An are instance is a tuple of its children tagged with its class.
nul == <<"nul">>
emp == <<"emp">>
lit(a) == <<"lit", a>>
con(l, r) == <<"con", l, r>>
alt(l, r) == <<"alt", l, r>>
rep(x) == <<"rep", x>>

RECURSIVE TreesOfSize(_)
TreesOfSize(n) ==
  IF n = 1
  THEN {nul, emp} \cup {lit(a) : a \in Alphabet}
  ELSE {rep(x) : x \in TreesOfSize(n - 1)}
       \cup UNION {{con(l, r) : l \in TreesOfSize(k), r \in TreesOfSize(n - 1 - k)}
                     : k \in 1..(n - 2)}
       \cup UNION {{alt(l, r) : l \in TreesOfSize(k), r \in TreesOfSize(n - 1 - k)}
                     : k \in 1..(n - 2)}

Trees == UNION {TreesOfSize(n) : n \in 1..MaxNodes}

Strings == UNION {[1..n -> Alphabet] : n \in 0..MaxLen}

\* Python's None as a match result; lengths are never negative.
None == -1

\* No call has returned yet.
Unset == -3

\* --------------------------------------------------------------- automaton
\* An nfa object graph: states are numbered in order of construction.
\*   kind "acc": nfa()            the empty instance, accepting
\*   kind "rej": -nfa()           the negated empty instance, rejecting
\*   kind "sym": nfa({sym: to[1]})
\*   kind "eps": nfa({epsilon: to})
NfaState(kind, sym, to) == [kind |-> kind, sym |-> sym, to |-> to]

\* The absent _compiled attribute.
NoCache == [start |-> 0, states |-> <<>>]

\* are.to_nfa(self, _nfa) with _nfa given: the states built so far are st and
\* next is the continuation; the result is the reference returned (0 for
\* None) and the states after the build.
RECURSIVE Build(_, _, _)

\* The build with the con rule turned round: the left side is built against
\* the outer continuation and the right side against the left side.
Build_Swapped(t, next, st) ==
  CASE t[1] = "nul" -> [ref |-> 0, states |-> st]
    [] t[1] = "emp" -> [ref |-> next, states |-> st]
    [] t[1] = "lit" ->
         [ref |-> Len(st) + 1,
          states |-> Append(st, NfaState("sym", t[2], <<next>>))]
    [] t[1] = "con" ->
         LET lhs == Build(t[2], next, st)
         IN  IF lhs.ref = 0
             THEN [ref |-> 0, states |-> lhs.states]
             ELSE Build(t[3], lhs.ref, lhs.states)
    [] t[1] = "alt" ->
         LET lhs == Build(t[2], next, st)
             rhs == Build(t[3], next, lhs.states)
         IN  IF lhs.ref # 0 /\ rhs.ref # 0
             THEN [ref |-> Len(rhs.states) + 1,
                   states |-> Append(rhs.states, NfaState("eps", 0, <<lhs.ref, rhs.ref>>))]
             ELSE IF lhs.ref # 0 THEN [ref |-> lhs.ref, states |-> rhs.states]
             ELSE [ref |-> rhs.ref, states |-> rhs.states]
    [] t[1] = "rep" ->
         LET self == Len(st) + 1
             arg == Build(t[2], self, Append(st, NfaState("eps", 0, <<next>>)))
         IN  IF arg.ref # 0
             THEN [ref |-> self,
                   states |-> [arg.states EXCEPT ![self].to = Append(@, arg.ref)]]
             ELSE [ref |-> self, states |-> arg.states]

\* The alt rule with one unsatisfiable side making the alternation
\* unsatisfiable.
BuildAlt_Strict(t, next, st) ==
  LET lhs == Build(t[2], next, st)
      rhs == Build(t[3], next, lhs.states)
  IN  IF lhs.ref # 0 /\ rhs.ref # 0
      THEN [ref |-> Len(rhs.states) + 1,
            states |-> Append(rhs.states, NfaState("eps", 0, <<lhs.ref, rhs.ref>>))]
      ELSE [ref |-> 0, states |-> rhs.states]

\* The alt rule with the epsilon branch added whenever a side is satisfiable.
BuildAlt_Branch(t, next, st) ==
  LET lhs == Build(t[2], next, st)
      rhs == Build(t[3], next, lhs.states)
  IN  IF lhs.ref = 0 /\ rhs.ref = 0
      THEN [ref |-> 0, states |-> rhs.states]
      ELSE [ref |-> Len(rhs.states) + 1,
            states |-> Append(rhs.states,
                         NfaState("eps", 0, SelectSeq(<<lhs.ref, rhs.ref>>, LAMBDA q : q # 0)))]

\* The alt rule: both sides are built against the same continuation.
BuildAlt(t, next, st) ==
  LET lhs == Build(t[2], next, st)
      rhs == Build(t[3], next, lhs.states)
  IN  IF lhs.ref # 0 /\ rhs.ref # 0
      THEN [ref |-> Len(rhs.states) + 1,
            states |-> Append(rhs.states,
                              NfaState("eps", 0, <<lhs.ref, rhs.ref>>))]
      ELSE IF lhs.ref # 0
      THEN [ref |-> lhs.ref, states |-> rhs.states]
      ELSE IF rhs.ref # 0
      THEN [ref |-> rhs.ref, states |-> rhs.states]
      ELSE [ref |-> 0, states |-> rhs.states]

\* The rep rule with an unsatisfiable argument making the repetition
\* unsatisfiable.
BuildRep_Unsat(t, next, st) ==
  LET self == Len(st) + 1
      arg == Build(t[2], self, Append(st, NfaState("eps", 0, <<next>>)))
  IN  IF arg.ref # 0
      THEN [ref |-> self, states |-> [arg.states EXCEPT ![self].to = Append(@, arg.ref)]]
      ELSE [ref |-> 0, states |-> arg.states]

\* The rep rule: a fresh state with an epsilon transition to the
\* continuation, the argument built with the fresh state as continuation.
BuildRep(t, next, st) ==
  LET self == Len(st) + 1
      arg == Build(t[2], self, Append(st, NfaState("eps", 0, <<next>>)))
  IN  IF arg.ref # 0
      THEN [ref |-> self,
            states |-> [arg.states EXCEPT ![self].to = Append(@, arg.ref)]]
      ELSE [ref |-> self, states |-> arg.states]

Build(t, next, st) ==
  CASE t[1] = "nul" -> [ref |-> 0, states |-> st]
    [] t[1] = "emp" -> [ref |-> next, states |-> st]
    [] t[1] = "lit" ->
         [ref |-> Len(st) + 1,
          states |-> Append(st, NfaState("sym", t[2], <<next>>))]
    [] t[1] = "con" ->
         LET rhs == Build(t[3], next, st)
         IN  IF rhs.ref = 0
             THEN [ref |-> 0, states |-> rhs.states]
             ELSE Build(t[2], rhs.ref, rhs.states)
    [] t[1] = "alt" -> BuildAlt(t, next, st)
    [] t[1] = "rep" -> BuildRep(t, next, st)

\* The fresh nfa() of the root invocation, the only state before the build.
Accepting == <<NfaState("acc", 0, <<>>)>>

\* to_nfa() handing out the continuation it was built against when the
\* build of the root is unsatisfiable.
to_nfa_Trivial(t) ==
  LET b == Build(t, 1, Accepting)
  IN  IF b.ref = 0
      THEN [start |-> 1, states |-> b.states]
      ELSE [start |-> b.ref, states |-> b.states]

\* are.to_nfa(self) in the root invocation: the continuation is a fresh
\* nfa(), and None becomes the automaton that rejects every string.
to_nfa(t) ==
  LET b == Build(t, 1, Accepting)
  IN  IF b.ref = 0
      THEN [start |-> Len(b.states) + 1,
            states |-> Append(b.states, NfaState("rej", 0, <<>>))]
      ELSE [start |-> b.ref, states |-> b.states]

\* ------------------------------------------------- the automaton evaluator
\* The states reachable from the set Q by epsilon transitions alone.
RECURSIVE Closure(_, _)
Closure(n, Q) ==
  LET R == Q \cup UNION {{n.states[q].to[i] : i \in 1..Len(n.states[q].to)}
                           : q \in {p \in Q : n.states[p].kind = "eps"}}
  IN  IF R = Q THEN Q ELSE Closure(n, R)

\* The states reached from the set Q by the one symbol a.
Move(n, Q, a) ==
  {n.states[q].to[1] :
     q \in {p \in Q : n.states[p].kind = "sym" /\ n.states[p].sym = a}}

\* The states the automaton may be in after reading the first k symbols of s.
RECURSIVE After(_, _, _)
After(n, s, k) ==
  IF k = 0
  THEN Closure(n, {n.start})
  ELSE Closure(n, Move(n, After(n, s, k - 1), s[k]))

Accepts(n, s, k) == \E q \in After(n, s, k) : n.states[q].kind = "acc"

\* nfa.__call__(string, full): the length of the string if the automaton
\* accepts it (full), the length of the longest accepted prefix (not full),
\* None if there is none.
NfaCall(n, s, full) ==
  IF full
  THEN IF Accepts(n, s, Len(s)) THEN Len(s) ELSE None
  ELSE LET ks == {k \in 0..Len(s) : Accepts(n, s, k)}
       IN  IF ks = {} THEN None ELSE CHOOSE k \in ks : \A j \in ks : j <= k

\* ------------------------------------------- the matcher as one evaluation
\* The recursive matcher never returns (a rep loop that does not end).
Loops == -2

Max(a, b) == IF a >= b THEN a ELSE b

\* emp()._match(string, full=True, _index=(_index + lengths)) followed by
\* ``return lengths`` if it is 0, the ending shared by con, alt and rep; in
\* prefix mode the length is returned at once.
EndOfMatch(s, f, i, lengths) ==
  IF ~f THEN lengths ELSE IF i + lengths < Len(s) THEN None ELSE lengths

\* node._match(s, f, i) evaluated to its return value.  The rep loop calls
\* its argument again at the same offset after a match of length 0, with
\* the same outcome, so it never ends: Loops.
RECURSIVE Match(_, _, _, _)
RECURSIVE RepLoop(_, _, _, _)
Match(t, s, f, i) ==
  CASE t[1] = "nul" -> None
    [] t[1] = "emp" -> IF i < Len(s) THEN (IF ~f THEN 0 ELSE None) ELSE 0
    [] t[1] = "lit" ->
         IF i < Len(s) /\ s[i + 1] = t[2] THEN EndOfMatch(s, f, i, 1) ELSE None
    [] t[1] = "con" ->
         LET n1 == Match(t[2], s, FALSE, i)
         IN  IF n1 \in {Loops, None}
             THEN n1
             ELSE LET n2 == Match(t[3], s, FALSE, i + n1)
                  IN  IF n2 \in {Loops, None} THEN n2 ELSE EndOfMatch(s, f, i, n1 + n2)
    [] t[1] = "alt" ->
         LET n1 == Match(t[2], s, f, i)
         IN  IF n1 = Loops
             THEN Loops
             ELSE LET n2 == Match(t[3], s, f, i)
                  IN  IF n2 = Loops THEN Loops
                      ELSE IF n1 = None THEN n2
                      ELSE IF n2 = None THEN EndOfMatch(s, f, i, n1)
                      ELSE EndOfMatch(s, f, i, Max(n1, n2))
    [] t[1] = "rep" ->
         LET n == RepLoop(t[2], s, i, 0)
         IN  IF n = Loops THEN Loops ELSE EndOfMatch(s, f, i, n)
RepLoop(x, s, i, lengths) ==
  LET length == Match(x, s, FALSE, i + lengths)
  IN  IF length = Loops THEN Loops
      ELSE IF length = None THEN lengths
      ELSE IF length = 0 THEN Loops
      ELSE RepLoop(x, s, i, lengths + length)

\* The nodes of a tree: the tree itself and the nodes of its children.
RECURSIVE Nodes(_)
Nodes(t) ==
  {t} \cup (IF t[1] \in {"con", "alt"} THEN Nodes(t[2]) \cup Nodes(t[3])
            ELSE IF t[1] = "rep" THEN Nodes(t[2])
            ELSE {})

\* ------------------------------------------------------------ program state
VARIABLES
  tree,       \* the are instance the client built
  string,     \* the abstract string the client applies it to
  iterable,   \* whether the value the client passes is an iterable at all
  full,       \* the mode of the call
  index,      \* the _index argument of the call
  attached,   \* the nodes below the root that carry a _compiled of their own
  compiled,   \* the _compiled attribute of the instance (NoCache: absent)
  compiles,   \* how many times compile() has been called
  pc,         \* "idle", "running" (inside _match), "done" or "raised"
  stack,      \* the activation records of _match, the innermost last
  iterated,   \* the symbols reiter(string) has drawn from the iterable
  ret,        \* the value the callee that finished last has returned
  result,     \* the value the call of the instance has returned
  cached,     \* whether the call in progress or just done used the cache
  observed,   \* the last value returned without the cache and with it
  tpc,        \* per thread: its position in compile() or __call__
  tbuilt,     \* per thread: the automaton compile() has built, not yet set
  tresult     \* per thread: the value its call has returned

\* The arguments of the call and the instance itself.
inputs == <<tree, string, iterable, full, index, attached>>

\* The threads that share the instance.
threads == <<tpc, tbuilt, tresult>>

vars == <<tree, string, iterable, full, index, attached, compiled, compiles, pc, stack,
          iterated, ret, result, cached, observed, tpc, tbuilt, tresult>>

\* One activation of _match: the node, the mode, the offset, the position in
\* the method body and the local variable lengths (lengths[0] in alt).
Frame(node, f, i) ==
  [node |-> node, full |-> f, index |-> i, at |-> "start", lengths |-> 0]

top == stack[Len(stack)]

\* The state after construction, the call not yet made: the client has an
\* iterable of symbols, or a value that is no iterable (nul()(123)).
Start ==
  /\ tree \in Trees
  /\ \/ iterable = TRUE /\ string \in Strings
     \/ iterable = FALSE /\ string = <<>>
  /\ full \in BOOLEAN
  /\ attached = {}
  /\ compiled = NoCache
  /\ compiles = 0
  /\ pc = "idle"
  /\ stack = <<>>
  /\ iterated = <<>>
  /\ ret = None
  /\ result = Unset
  /\ cached = FALSE
  /\ observed = [c \in BOOLEAN |-> Unset]
  /\ tpc = [t \in Threads |-> "idle"]
  /\ tbuilt = [t \in Threads |-> NoCache]
  /\ tresult = [t \in Threads |-> Unset]

\* The client leaves _index at its default.
Init == Start /\ index = 0

\* The client passes an _index within the string.
OffsetInit == Start /\ index \in 0..Len(string)

\* compile() with the continuation of the build kept from one call to the
\* next: the second automaton is chained onto the first.
compile_Chained ==
  /\ pc = "idle"
  /\ compiles < MaxCompiles
  /\ compiles' = compiles + 1
  /\ compiled' = IF compiled = NoCache
                 THEN to_nfa(tree)
                 ELSE LET b == Build(tree, compiled.start, compiled.states)
                      IN  IF b.ref = 0
                          THEN compiled
                          ELSE [start |-> b.ref, states |-> b.states]
  /\ UNCHANGED <<inputs, pc, stack, iterated, ret, result, cached, observed, threads>>

\* are.compile(): build the automaton and attach it to the instance.  The
\* transition table nfa.compile() adds belongs to the evaluator; a call of
\* the compiled automaton is answered as NfaCall answers.
compile ==
  /\ pc = "idle"
  /\ compiles < MaxCompiles
  /\ compiles' = compiles + 1
  /\ compiled' = to_nfa(tree)
  /\ UNCHANGED <<inputs, pc, stack, iterated, ret, result, cached, observed, threads>>

\* __call__ without the isinstance test of its argument.
call_Unchecked ==
  /\ pc = "idle"
  /\ IF compiled # NoCache
     THEN /\ result' = NfaCall(compiled, string, full)
          /\ observed' = [observed EXCEPT ![TRUE] = NfaCall(compiled, string, full)]
          /\ cached' = TRUE
          /\ pc' = "done"
          /\ UNCHANGED <<stack, ret>>
     ELSE /\ stack' = <<Frame(tree, full, index)>>
          /\ cached' = FALSE
          /\ pc' = "running"
          /\ UNCHANGED <<result, observed, ret>>
  /\ iterated' = <<>>
  /\ UNCHANGED <<inputs, compiled, compiles, threads>>

\* are.__call__: a value that is no iterable raises ValueError; string is
\* wrapped in a reiter; the compiled automaton answers if it is present
\* (it is not given _index), the recursive matcher is entered at _index
\* otherwise.
call ==
  /\ pc = "idle"
  /\ IF ~iterable
     THEN /\ pc' = "raised"
          /\ UNCHANGED <<stack, ret, result, cached, observed>>
     ELSE IF compiled # NoCache
     THEN /\ result' = NfaCall(compiled, string, full)
          /\ observed' = [observed EXCEPT ![TRUE] = NfaCall(compiled, string, full)]
          /\ cached' = TRUE
          /\ pc' = "done"
          /\ UNCHANGED <<stack, ret>>
     ELSE /\ stack' = <<Frame(tree, full, index)>>
          /\ cached' = FALSE
          /\ pc' = "running"
          /\ UNCHANGED <<result, observed, ret>>
  /\ iterated' = <<>>
  /\ UNCHANGED <<inputs, compiled, compiles, threads>>

\* The client takes the returned value, or handles the exception; the
\* instance can be called again.
finish ==
  /\ pc \in {"done", "raised"}
  /\ pc' = "idle"
  /\ UNCHANGED <<inputs, compiled, compiles, stack, iterated, ret, result, cached,
                 observed, threads>>

\* return v: the innermost activation ends and hands v to its caller, or to
\* the client when it is the activation __call__ started.
Return(v) ==
  /\ ret' = v
  /\ stack' = SubSeq(stack, 1, Len(stack) - 1)
  /\ IF Len(stack) = 1
     THEN /\ pc' = "done"
          /\ result' = v
          /\ observed' = [observed EXCEPT ![FALSE] = v]
     ELSE UNCHANGED <<pc, result, observed>>
  /\ UNCHANGED <<inputs, compiled, compiles, cached, threads>>

\* The call of a child made through its __call__: a child that carries a
\* compiled automaton answers from it, without an activation of _match.
Invoke_Cached(at, lengths, node, f, i) ==
  /\ IF node \in attached
     THEN /\ stack' = [stack EXCEPT ![Len(stack)].at = at,
                                    ![Len(stack)].lengths = lengths]
          /\ ret' = NfaCall(to_nfa(node), string, f)
     ELSE /\ stack' = Append([stack EXCEPT ![Len(stack)].at = at,
                                           ![Len(stack)].lengths = lengths],
                             Frame(node, f, i))
          /\ UNCHANGED ret
  /\ UNCHANGED <<inputs, compiled, compiles, pc, result, cached, observed, threads>>

\* node._match(string, full=f, _index=i) is called from the innermost
\* activation, which waits for it at position at with its local lengths.
Invoke(at, lengths, node, f, i) ==
  /\ stack' = Append([stack EXCEPT ![Len(stack)].at = at,
                                   ![Len(stack)].lengths = lengths],
                     Frame(node, f, i))
  /\ UNCHANGED <<inputs, compiled, compiles, pc, ret, result, cached, observed, threads>>

\* reiter.__getitem__: the symbols drawn so far are kept; a position not yet
\* drawn is reached by drawing the next symbols of the iterable one by one,
\* until the iterable is exhausted.
RECURSIVE Pull(_, _)
Pull(drawn, i) ==
  IF i < Len(drawn) \/ Len(drawn) = Len(string)
  THEN drawn
  ELSE Pull(Append(drawn, string[Len(drawn) + 1]), i)

\* string[_index] is evaluated: the reiter draws what it needs.
Fetch(i) == iterated' = Pull(iterated, i)

\* string[_index] raises IndexError past the end of the string.
InRange(i) == i < Len(Pull(iterated, i))

\* The symbol the iterable hands out next, taken for string[_index].
Symbol_Next(i) ==
  IF Len(iterated) < Len(string) THEN string[Len(iterated) + 1] ELSE string[i + 1]

\* string[_index], the offsets counted from 0.
Symbol(i) == Pull(iterated, i)[i + 1]

\* The tail with the end-of-input check left out.
EndCheck_Unchecked(lengths) == Return(lengths)

\* The tail of con, alt and rep: ``if not full: return lengths``, then the
\* call of emp()._match(string, full=True, ...) at the end of the match.
EndCheck(lengths) ==
  IF ~top.full
  THEN Return(lengths)
  ELSE Invoke("check", lengths, emp, TRUE, top.index + lengths)

\* The end check with its outcome ignored.
Checked_Lenient == Return(top.lengths)

\* ``if result == 0: return lengths`` and the final ``return None``.
Checked == Return(IF ret = 0 THEN top.lengths ELSE None)

\* nul taken for emp in prefix mode: a match of length 0.
nul_match_Zero ==
  /\ pc = "running"
  /\ top.node[1] = "nul"
  /\ Fetch(top.index)
  /\ Return(IF top.full THEN None ELSE 0)

nul_match ==
  /\ pc = "running"
  /\ top.node[1] = "nul"
  /\ Fetch(top.index)
  /\ Return(None)

\* emp with ``if not full: return 0`` left out.
emp_match_Strict ==
  /\ pc = "running"
  /\ top.node[1] = "emp"
  /\ Fetch(top.index)
  /\ IF InRange(top.index) THEN Return(None) ELSE Return(0)

emp_match ==
  /\ pc = "running"
  /\ top.node[1] = "emp"
  /\ Fetch(top.index)
  /\ IF InRange(top.index)
     THEN IF ~top.full THEN Return(0) ELSE Return(None)
     ELSE Return(0)

\* lit without the comparison of the symbol read.
lit_match_Any ==
  /\ pc = "running"
  /\ top.node[1] = "lit"
  /\ \/ /\ top.at = "start"
        /\ Fetch(top.index)
        /\ IF InRange(top.index)
           THEN IF ~top.full
                THEN Return(1)
                ELSE Invoke("check", 1, emp, TRUE, top.index + 1)
           ELSE Return(None)
     \/ /\ top.at = "check"
        /\ UNCHANGED iterated
        /\ Return(IF ret = 0 THEN 1 ELSE None)

\* lit with the IndexError handler returning a match of one symbol.
lit_match_PastEnd ==
  /\ pc = "running"
  /\ top.node[1] = "lit"
  /\ \/ /\ top.at = "start"
        /\ Fetch(top.index)
        /\ IF InRange(top.index)
           THEN IF Symbol(top.index) = top.node[2]
                THEN IF ~top.full
                     THEN Return(1)
                     ELSE Invoke("check", 1, emp, TRUE, top.index + 1)
                ELSE Return(None)
           ELSE Return(1)
     \/ /\ top.at = "check"
        /\ UNCHANGED iterated
        /\ Return(IF ret = 0 THEN 1 ELSE None)

lit_match ==
  /\ pc = "running"
  /\ top.node[1] = "lit"
  /\ \/ /\ top.at = "start"
        /\ Fetch(top.index)
        /\ IF InRange(top.index)
           THEN IF Symbol(top.index) = top.node[2]
                THEN IF ~top.full
                     THEN Return(1)
                     ELSE Invoke("check", 1, emp, TRUE, top.index + 1)
                ELSE Return(None)
           ELSE Return(None)
     \/ /\ top.at = "check"
        /\ UNCHANGED iterated
        /\ Return(IF ret = 0 THEN 1 ELSE None)

\* con that gives up the symbols its left side took when the right side
\* fails, and tries the right side where the left side started.
con_match_GiveBack ==
  /\ pc = "running"
  /\ top.node[1] = "con"
  /\ UNCHANGED iterated
  /\ \/ /\ top.at = "start"
        /\ Invoke("left", 0, top.node[2], FALSE, top.index)
     \/ /\ top.at = "left"
        /\ IF ret # None
           THEN Invoke("right", ret, top.node[3], FALSE, top.index + ret)
           ELSE Return(None)
     \/ /\ top.at = "right"
        /\ IF ret # None
           THEN EndCheck(top.lengths + ret)
           ELSE IF top.lengths > 0
           THEN Invoke("right", 0, top.node[3], FALSE, top.index)
           ELSE Return(None)
     \/ /\ top.at = "check"
        /\ Checked

con_match ==
  /\ pc = "running"
  /\ top.node[1] = "con"
  /\ UNCHANGED iterated
  /\ \/ /\ top.at = "start"
        /\ Invoke("left", 0, top.node[2], FALSE, top.index)
     \/ /\ top.at = "left"
        /\ IF ret # None
           THEN Invoke("right", ret, top.node[3], FALSE, top.index + ret)
           ELSE Return(None)
     \/ /\ top.at = "right"
        /\ IF ret # None
           THEN EndCheck(top.lengths + ret)
           ELSE Return(None)
     \/ /\ top.at = "check"
        /\ Checked

\* alt that returns its first alternative when both are satisfied.
alt_match_First ==
  /\ pc = "running"
  /\ top.node[1] = "alt"
  /\ UNCHANGED iterated
  /\ \/ /\ top.at = "start"
        /\ Invoke("left", 0, top.node[2], top.full, top.index)
     \/ /\ top.at = "left"
        /\ IF ret = None
           THEN Invoke("only", 0, top.node[3], top.full, top.index)
           ELSE Invoke("right", ret, top.node[3], top.full, top.index)
     \/ /\ top.at = "only"
        /\ Return(ret)
     \/ /\ top.at = "right"
        /\ EndCheck(top.lengths)
     \/ /\ top.at = "check"
        /\ Checked

alt_match ==
  /\ pc = "running"
  /\ top.node[1] = "alt"
  /\ UNCHANGED iterated
  /\ \/ /\ top.at = "start"
        /\ Invoke("left", 0, top.node[2], top.full, top.index)
     \/ /\ top.at = "left"
        /\ IF ret = None
           THEN Invoke("only", 0, top.node[3], top.full, top.index)
           ELSE Invoke("right", ret, top.node[3], top.full, top.index)
     \/ /\ top.at = "only"
        /\ Return(ret)
     \/ /\ top.at = "right"
        /\ IF ret = None
           THEN EndCheck(top.lengths)
           ELSE EndCheck(Max(top.lengths, ret))
     \/ /\ top.at = "check"
        /\ Checked

rep_match ==
  /\ pc = "running"
  /\ top.node[1] = "rep"
  /\ UNCHANGED iterated
  /\ \/ /\ top.at = "start"
        /\ Invoke("loop", 0, top.node[2], FALSE, top.index)
     \/ /\ top.at = "loop"
        /\ IF ret # None
           THEN Invoke("loop", top.lengths + ret, top.node[2], FALSE,
                       top.index + top.lengths + ret)
           ELSE EndCheck(top.lengths)
     \/ /\ top.at = "check"
        /\ Checked

\* One step of the recursive matcher.
match == nul_match \/ emp_match \/ lit_match \/ con_match \/ alt_match \/ rep_match

Next == compile \/ call \/ finish \/ match

Spec == Init /\ [][Next]_vars

\* A call of _match that has started keeps running until it returns.
FairSpec == Spec /\ WF_vars(match)

\* The same program with the client choosing _index.
OffsetSpec == OffsetInit /\ [][Next]_vars

\* c.compile() on a node c below the root, between two calls of the root:
\* the automaton of c is attached to c.
compile_child ==
  /\ pc = "idle"
  /\ attached = {}
  /\ \E c \in Nodes(tree) \ {tree} : attached' = {c}
  /\ UNCHANGED <<tree, string, iterable, full, index, compiled, compiles, pc,
                 stack, iterated, ret, result, cached, observed, threads>>

CacheNext == compile_child \/ Next

\* The same program with the client compiling a node below the root.
CacheSpec == Init /\ [][CacheNext]_vars

\* ------------------------------------------------- threads on one instance
\* Several threads call compile() and apply the same instance to the same
\* arguments.  A thread's reiter and its activations of _match are its own
\* and the tree is only read, so that a thread's run of _match is one step
\* here; the reads and the write of the attribute _compiled are steps of
\* their own.

\* The call of an attribute that holds no automaton.
Crashed == -4

\* compile() that clears the attribute while it builds the new automaton.
t_build_Reset(t) ==
  /\ tpc[t] = "idle"
  /\ tbuilt' = [tbuilt EXCEPT ![t] = to_nfa(tree)]
  /\ tpc' = [tpc EXCEPT ![t] = "built"]
  /\ compiled' = NoCache
  /\ UNCHANGED <<inputs, compiles, pc, stack, iterated, ret, result, cached,
                 observed, tresult>>

\* compile(): self.to_nfa().compile() is evaluated; nothing is shared yet.
t_build(t) ==
  /\ tpc[t] = "idle"
  /\ tbuilt' = [tbuilt EXCEPT ![t] = to_nfa(tree)]
  /\ tpc' = [tpc EXCEPT ![t] = "built"]
  /\ UNCHANGED <<inputs, compiled, compiles, pc, stack, iterated, ret, result,
                 cached, observed, tresult>>

\* compile(): setattr(self, '_compiled', ...) and return self.
t_setattr(t) ==
  /\ tpc[t] = "built"
  /\ compiled' = tbuilt[t]
  /\ tbuilt' = [tbuilt EXCEPT ![t] = NoCache]
  /\ tpc' = [tpc EXCEPT ![t] = "idle"]
  /\ UNCHANGED <<inputs, compiles, pc, stack, iterated, ret, result, cached,
                 observed, tresult>>

\* __call__ up to the choice of the branch: the argument is validated and
\* wrapped, and hasattr(self, '_compiled') and self._compiled is not None
\* is evaluated.
t_call(t) ==
  /\ tpc[t] = "idle"
  /\ tpc' = [tpc EXCEPT ![t] = IF ~iterable THEN "raised"
                               ELSE IF compiled # NoCache THEN "cached"
                               ELSE "matching"]
  /\ UNCHANGED <<inputs, compiled, compiles, pc, stack, iterated, ret, result,
                 cached, observed, tbuilt, tresult>>

\* self._compiled(string, full=full): the attribute is read again.
t_eval(t) ==
  /\ tpc[t] = "cached"
  /\ tresult' = [tresult EXCEPT ![t] = IF compiled = NoCache
                                       THEN Crashed
                                       ELSE NfaCall(compiled, string, full)]
  /\ tpc' = [tpc EXCEPT ![t] = "done"]
  /\ UNCHANGED <<inputs, compiled, compiles, pc, stack, iterated, ret, result,
                 cached, observed, tbuilt>>

\* self._match(string, full, _index) runs to its return, if it returns.
t_match(t) ==
  /\ tpc[t] = "matching"
  /\ Match(tree, string, full, index) # Loops
  /\ tresult' = [tresult EXCEPT ![t] = Match(tree, string, full, index)]
  /\ tpc' = [tpc EXCEPT ![t] = "done"]
  /\ UNCHANGED <<inputs, compiled, compiles, pc, stack, iterated, ret, result,
                 cached, observed, tbuilt>>

\* The thread takes the returned value, or handles the exception.
t_return(t) ==
  /\ tpc[t] \in {"done", "raised"}
  /\ tpc' = [tpc EXCEPT ![t] = "idle"]
  /\ tresult' = [tresult EXCEPT ![t] = Unset]
  /\ UNCHANGED <<inputs, compiled, compiles, pc, stack, iterated, ret, result,
                 cached, observed, tbuilt>>

ConcNext ==
  \E t \in Threads :
    t_build(t) \/ t_setattr(t) \/ t_call(t) \/ t_eval(t) \/ t_match(t) \/ t_return(t)

ConcSpec == Init /\ [][ConcNext]_vars

\* ------------------------------------------------------- regular languages
\* The symbols of s from offset i up to offset j belong to the regular
\* language denoted by t: nul the empty set, emp the empty string, lit(x)
\* the one symbol x, con concatenation, alt union, rep the Kleene star.
RECURSIVE Sat(_, _, _, _)
Sat(t, s, i, j) ==
  CASE t[1] = "nul" -> FALSE
    [] t[1] = "emp" -> i = j
    [] t[1] = "lit" -> j = i + 1 /\ s[j] = t[2]
    [] t[1] = "con" -> \E k \in i..j : Sat(t[2], s, i, k) /\ Sat(t[3], s, k, j)
    [] t[1] = "alt" -> Sat(t[2], s, i, j) \/ Sat(t[3], s, i, j)
    [] t[1] = "rep" ->
         i = j \/ \E k \in (i + 1)..j : Sat(t[2], s, i, k) /\ Sat(t, s, k, j)

\* The lengths of the prefixes of s that belong to the language of t.
Accepted(t, s) == {k \in 0..Len(s) : Sat(t, s, 0, k)}

Longest(ks) == CHOOSE k \in ks : \A j \in ks : j <= k

\* The call returned from the recursive matcher (the cache was absent).
Matched == pc = "done" /\ ~cached

\* The activations of _match return what the evaluation Match computes.
MatchAgrees == Matched => result = Match(tree, string, full, index)

\* ------------------------------------------------------------------ claims

\* C1: the recursive matcher r(s, full) returns what the automaton
\* r.to_nfa() returns on (s, full), in both modes.
C1_AutomatonEquivalence ==
  Matched => result = NfaCall(to_nfa(tree), string, full)

\* C2: the value r(s, full) returns before r.compile() equals the value it
\* returns after r.compile().
C2_CacheKeepsResults ==
  observed[FALSE] # Unset /\ observed[TRUE] # Unset
    => observed[FALSE] = observed[TRUE]

\* C3: in full mode the uncompiled T(s) returns len(s) if s belongs to the
\* language of T and None otherwise.
C3_FullDecidesMembership ==
  Matched /\ full
    => result = IF Sat(tree, string, 0, Len(string)) THEN Len(string) ELSE None

\* C4: in prefix mode T(s, full=False) returns the largest k such that
\* s[:k] belongs to the language of T, and None exactly when there is none.
C4_PrefixIsLongest ==
  Matched /\ ~full
    => result = IF Accepted(tree, string) = {}
                THEN None
                ELSE Longest(Accepted(tree, string))

\* C5: the recursive matcher eventually returns, for every tree, every
\* string and both modes.
C5_MatchTerminates == (pc = "running") ~> (pc = "done")

\* C6: rep(x) applied to the empty string succeeds and returns 0, for
\* every x.
C6_RepeatFixpoint ==
  (pc = "running" /\ tree[1] = "rep" /\ string = <<>>)
    ~> (pc = "done" /\ result = 0)

\* C7: a full-mode call that returns a length n returns n = len(s), so
\* that s[:n] is s and the call on s[:n] returns n too; a full-mode call
\* never returns another integer.
C7_FullReturnsLength ==
  pc = "done" /\ full /\ result # None => result = Len(string)

C7_Witness ==
  Matched /\ full /\ tree[1] = "alt" /\ result = Len(string) /\ result >= 2

\* C8: a prefix-mode call returns None or an integer k with
\* 0 <= k <= len(s).
C8_PrefixBound ==
  pc = "done" /\ ~full => result = None \/ (0 <= result /\ result <= Len(string))

C8_Witness ==
  Matched /\ ~full /\ tree[1] = "lit" /\ result = 1 /\ Len(string) = 1

\* What the tree x returns on the string and mode of the call, from the
\* compiled automaton if the call used the cache, from _match otherwise.
Returns(x) ==
  IF cached THEN NfaCall(to_nfa(x), string, full) ELSE Match(x, string, full, 0)

\* C9: con(nul(), x) and con(x, nul()) return None, and alt(nul(), x) and
\* alt(x, nul()) return what x returns on the same string and mode, from the
\* recursive matcher and from the compiled automaton alike.
C9_NullAbsorption ==
  pc = "done" =>
    /\ tree[1] = "con" /\ nul \in {tree[2], tree[3]} => result = None
    /\ tree[1] = "alt" /\ tree[2] = nul => result = Returns(tree[3])
    /\ tree[1] = "alt" /\ tree[3] = nul => result = Returns(tree[2])

C9_Witness ==
  /\ Matched
  /\ tree[1] = "alt"
  /\ tree[2] = nul
  /\ tree[3] # nul
  /\ result = Len(string)
  /\ result >= 1

\* C10: a tree that the empty string satisfies returns an integer, never
\* None, in prefix mode on every string.
C10_VacuousPrefix ==
  pc = "done" /\ ~full /\ Sat(tree, <<>>, 0, 0) => result # None

C10_Witness ==
  /\ Matched
  /\ ~full
  /\ tree = alt(lit(2), emp)
  /\ string = <<1, 1, 1>>
  /\ result = 0

\* C11: a value that is not iterable makes the call raise ValueError at its
\* entry, with the cache present or absent: no activation of _match is
\* started, no symbol is read, no automaton is evaluated and no result is
\* produced; the error is raised from the idle state only, never once
\* matching has started.
C11_InputValidation ==
  /\ [](~iterable =>
          /\ pc \in {"idle", "raised"}
          /\ stack = <<>>
          /\ iterated = <<>>
          /\ result = Unset
          /\ \A c \in BOOLEAN : observed[c] = Unset)
  /\ [](pc = "raised" => ~iterable)
  /\ [][pc' = "raised" => pc = "idle" /\ stack = <<>>]_vars

C11_Witness ==
  pc = "raised" /\ compiled # NoCache /\ tree[1] = "rep" /\ full

\* C12: a second compile() leaves the tree and its children as they are and
\* attaches the automaton the first compile() attached, so that a call made
\* after it returns what the same call returned before it.
C12_CompileIdempotent ==
  [][/\ tree' = tree
     /\ compiled # NoCache => compiled' = compiled
     /\ observed[TRUE] # Unset => observed'[TRUE] = observed[TRUE]]_vars

C12_Witness ==
  /\ compiles = 2
  /\ pc = "done"
  /\ cached
  /\ tree[1] = "rep"
  /\ result = 2
  /\ observed[TRUE] = result

\* C15: the automaton to_nfa() returns for the root is never the marker
\* None: its start is one of its states, and that state is the rejecting
\* state, on which every string is rejected, exactly when the build of the
\* root against the accepting state is unsatisfiable; otherwise it is the
\* result of that build.  The builds of the nodes below the root add no
\* rejecting state.
C15_RootReject ==
  compiled # NoCache =>
    LET b == Build(tree, 1, Accepting)
    IN  /\ compiled.start \in 1..Len(compiled.states)
        /\ compiled.states[compiled.start].kind = "rej" <=> b.ref = 0
        /\ b.ref # 0 => compiled = [start |-> b.ref, states |-> b.states]
        /\ b.ref = 0 => \A s \in Strings, f \in BOOLEAN : NfaCall(compiled, s, f) = None
        /\ \A q \in 1..Len(b.states) : b.states[q].kind # "rej"

C15_Witness ==
  /\ compiled # NoCache
  /\ compiled.states[compiled.start].kind = "rej"
  /\ tree[1] = "con"
  /\ tree[2][1] = "rep"
  /\ tree[3] = nul
  /\ pc = "done"
  /\ cached
  /\ result = None

\* The innermost activation of _match returns in this step.
Returning == pc = "running" /\ Len(stack') < Len(stack)

\* What C16 says con(l, r) returns in mode f at offset o.
ConcatRule(l, r, f, o) ==
  LET n1 == Match(l, string, FALSE, o)
      n2 == Match(r, string, FALSE, o + n1)
  IN  IF n1 = None THEN None
      ELSE IF n2 = None THEN None
      ELSE IF ~f \/ o + n1 + n2 = Len(string) THEN n1 + n2
      ELSE None

AlternateRule(l, r, f, o) ==
  LET n1 == Match(l, string, f, o)
      n2 == Match(r, string, f, o)
  IN  IF n1 = None THEN n2
      ELSE IF n2 = None THEN n1
      ELSE Max(n1, n2)

\* C17: every activation of alt(l, r) in mode f at an offset o returns None
\* if both sides return None in mode f at o, the result of the one side
\* that does not, and the larger of the two results if neither does; it
\* returns what alt(r, l) returns in the same place.
C17_AlternateMax ==
  [][Returning /\ top.node[1] = "alt"
       => /\ ret' = AlternateRule(top.node[2], top.node[3], top.full, top.index)
          /\ ret' = AlternateRule(top.node[3], top.node[2], top.full, top.index)
          /\ ret' = Match(alt(top.node[3], top.node[2]), string, top.full, top.index)]_vars

C17_Witness ==
  /\ Matched
  /\ tree = alt(lit(1), rep(lit(1)))
  /\ string = <<2, 1, 1>>
  /\ index = 1
  /\ ~full
  /\ result = 2

\* Continuations a node is built against: the accepting state of the root
\* invocation, the state of a literal that follows the node in a con, and
\* the state of a rep that encloses the node.
Contexts ==
  { [next |-> 1, st |-> Accepting],
    [next |-> 2, st |-> Append(Accepting, NfaState("sym", 1, <<1>>))],
    [next |-> 2, st |-> Append(Accepting, NfaState("eps", 0, <<1>>))] }

\* The states that were there before a build are the same after it.
Keeps(before, after) ==
  Len(before) <= Len(after) /\ SubSeq(after, 1, Len(before)) = before

\* What C18 says of the build of alt(l, r) against the continuation c.
AltRuleHolds(t, c) ==
  LET b == BuildAlt(t, c.next, c.st)
      lhs == Build(t[2], c.next, c.st)
      rhs == Build(t[3], c.next, lhs.states)
  IN  /\ Keeps(c.st, b.states)
      /\ lhs.ref # 0 /\ rhs.ref # 0 =>
           /\ b.ref = Len(rhs.states) + 1
           /\ b.states = Append(rhs.states, NfaState("eps", 0, <<lhs.ref, rhs.ref>>))
      /\ lhs.ref # 0 /\ rhs.ref = 0 => b.ref = lhs.ref /\ b.states = rhs.states
      /\ lhs.ref = 0 /\ rhs.ref # 0 => b.ref = rhs.ref /\ b.states = rhs.states
      /\ lhs.ref = 0 /\ rhs.ref = 0 => b.ref = 0

\* C18: the build of every alt node builds both sides against the one
\* continuation; with both sides satisfiable the result is one new state
\* with epsilon transitions to exactly the two sides; with one side
\* satisfiable it is the state of that side and no state is added; with
\* neither satisfiable it is None.
C18_AltBuild ==
  \A t \in Nodes(tree) : t[1] = "alt" => \A c \in Contexts : AltRuleHolds(t, c)

\* alt(nul(), rep(lit(1))) compiled is the automaton of rep(lit(1)).
C18_Witness ==
  /\ tree = alt(nul, rep(lit(1)))
  /\ compiled = to_nfa(rep(lit(1)))
  /\ pc = "done"
  /\ cached
  /\ result = 2

\* What C19 says of the build of rep(x) against the continuation c.
RepRuleHolds(t, c) ==
  LET b == BuildRep(t, c.next, c.st)
      fresh == Len(c.st) + 1
      inner == Build(t[2], fresh, Append(c.st, NfaState("eps", 0, <<c.next>>)))
  IN  /\ Keeps(c.st, b.states)
      /\ b.ref = fresh
      /\ b.states[fresh].kind = "eps"
      /\ b.states[fresh].to[1] = c.next
      /\ Len(b.states[fresh].to) = (IF inner.ref # 0 THEN 2 ELSE 1)
      /\ inner.ref # 0 => b.states[fresh].to[2] = inner.ref

\* C19: the build of every rep node is satisfiable: a fresh state with an
\* epsilon transition to the continuation and, exactly when the build of
\* the argument against the fresh state is satisfiable, a second one to the
\* argument.  con(rep(nul()), lit(a)) compiled accepts [a] and no other
\* string.
C19_RepBuild ==
  /\ \A t \in Nodes(tree) : t[1] = "rep" => \A c \in Contexts : RepRuleHolds(t, c)
  /\ \A a \in Alphabet :
       tree = con(rep(nul), lit(a)) /\ pc = "done" /\ cached /\ full
         => (result # None <=> string = <<a>>)

C19_Witness ==
  /\ tree = con(rep(nul), lit(1))
  /\ pc = "done"
  /\ cached
  /\ full
  /\ string = <<1>>
  /\ result = 1

\* The string from the offset of the call on: s[k:].
Rest == SubSeq(string, index + 1, Len(string))

\* C20: a call with _index = k returns what the call on s[k:] with
\* _index = 0 returns, from the recursive matcher when the instance has no
\* compiled automaton and from the automaton when it has one.
C20_OffsetSemantics ==
  pc = "done" =>
    result = IF cached
             THEN NfaCall(to_nfa(tree), Rest, full)
             ELSE Match(tree, Rest, full, 0)

\* C14: the symbols the reiter has drawn are the first symbols of the
\* string, every read of a position by an activation of nul, emp or lit
\* finds the symbol of the string at that position, or the end of the
\* string, whatever was read before, and the call returns what the
\* evaluation over the indexable string returns.
C14_ReadsAgree ==
  /\ Len(iterated) <= Len(string)
  /\ iterated = SubSeq(string, 1, Len(iterated))
  /\ pc = "running" /\ top.node[1] \in {"nul", "emp", "lit"} /\ top.at = "start"
       => /\ InRange(top.index) <=> top.index < Len(string)
          /\ InRange(top.index) => Symbol(top.index) = string[top.index + 1]
  /\ Matched => result = Match(tree, string, full, index)

\* The second alternative reads position 0 after the first has failed on
\* it, and only that symbol has been drawn.
C14_Witness ==
  /\ Matched
  /\ tree = alt(lit(1), lit(2))
  /\ string = <<2, 1>>
  /\ ~full
  /\ result = 1
  /\ iterated = <<2>>

\* C13: under every interleaving of the threads the tree is not changed,
\* the attribute _compiled is absent or the compiled automaton of the tree,
\* and a call that returns returns what the recursive matcher or the
\* automaton of the tree returns on its arguments.
C13_ConcurrentCache ==
  /\ [](compiled \in {NoCache, to_nfa(tree)})
  /\ [](\A t \in Threads :
          /\ tbuilt[t] \in {NoCache, to_nfa(tree)}
          /\ tpc[t] = "done" =>
               tresult[t] \in {Match(tree, string, full, index),
                               NfaCall(to_nfa(tree), string, full)} \ {Loops})
  /\ [][tree' = tree]_vars

\* One thread returns the matcher's value and the other the automaton's,
\* which the other thread's compile() attached in between.
C13_Witness ==
  /\ tpc["t1"] = "done"
  /\ tpc["t2"] = "done"
  /\ tree = con(rep(lit(1)), lit(1))
  /\ tresult["t1"] = None
  /\ tresult["t2"] = Len(string)
  /\ compiled # NoCache

\* C21: the automaton to_nfa() returns has a path from its start to the
\* accepting state that spells a string, epsilon transitions spelling
\* nothing, exactly when the string belongs to the language of the tree;
\* checked on the string of the call and on each of its prefixes.
C21_AutomatonLanguage ==
  compiled # NoCache =>
    \A k \in 0..Len(string) :
      Accepts(compiled, SubSeq(string, 1, k), k) <=> Sat(tree, string, 0, k)

C21_Witness ==
  /\ compiled # NoCache
  /\ tree = con(rep(lit(1)), lit(1))
  /\ string = <<1, 1, 1>>
  /\ pc = "done"
  /\ cached
  /\ result = 3

\* C22: an activation of _match that returns an integer n at the offset o
\* has found s[o:o+n] in the language of its node, in either mode.
C22_MatcherSound ==
  [][Returning /\ ret' # None
       => /\ 0 <= ret'
          /\ top.index + ret' <= Len(string)
          /\ Sat(top.node, string, top.index, top.index + ret')]_vars

C22_Witness ==
  /\ Matched
  /\ tree = con(lit(1), rep(lit(2)))
  /\ string = <<2, 1, 2>>
  /\ index = 1
  /\ full
  /\ result = 2

\* The language of the tree is empty, by the structure of the tree.
RECURSIVE Void(_)
Void(t) ==
  CASE t[1] = "nul" -> TRUE
    [] t[1] \in {"emp", "lit", "rep"} -> FALSE
    [] t[1] = "con" -> Void(t[2]) \/ Void(t[3])
    [] t[1] = "alt" -> Void(t[2]) /\ Void(t[3])

\* C23: the build of a node against a continuation is None, and the
\* automaton of the root starts in the rejecting state, exactly when the
\* language of the node is empty: the node is nul, a con with a side of
\* empty language or an alt with two, which is when no string belongs to
\* its language.
C23_UnsatisfiableIsEmpty ==
  /\ \A t \in Nodes(tree) :
       /\ Void(t) <=> ~\E s \in Strings : Sat(t, s, 0, Len(s))
       /\ \A c \in Contexts : Build(t, c.next, c.st).ref = 0 <=> Void(t)
  /\ compiled # NoCache =>
       (compiled.states[compiled.start].kind = "rej" <=> Void(tree))

C23_Witness ==
  /\ compiled # NoCache
  /\ tree = con(nul, rep(lit(1)))
  /\ compiled.states[compiled.start].kind = "rej"
  /\ pc = "done"
  /\ cached
  /\ result = None

\* The value a full-mode call returns, given the value of the prefix-mode
\* call on the same string.
FullOf(prefix) == IF prefix = Len(string) THEN Len(string) ELSE None

\* C24: where the recursive matcher returns in both modes, the full-mode
\* call returns len(s) if the prefix-mode call returns len(s) and None
\* otherwise.
C24_FullIsPrefixAtEnd ==
  Matched /\ Match(tree, string, ~full, index) # Loops =>
    IF full
    THEN result = FullOf(Match(tree, string, FALSE, index))
    ELSE Match(tree, string, TRUE, index) = FullOf(result)

\* The prefix-mode call stops short of the end, where the full-mode call
\* returns None.
C24_Witness ==
  /\ Matched
  /\ ~full
  /\ tree = alt(lit(1), rep(lit(1)))
  /\ string = <<1, 1, 2>>
  /\ result = 2
  /\ Match(tree, string, TRUE, index) = None

\* C25: with a compiled automaton attached to a node below the root, a call
\* of the root returns what the recursive matcher returns on the tree, the
\* automaton compile() attaches to the root is the automaton of the tree,
\* and a call answers from a cache only when the root carries one.
C25_ChildCacheUnused ==
  attached # {} =>
    /\ Matched => result = Match(tree, string, full, index)
    /\ compiled # NoCache => compiled = to_nfa(tree)
    /\ pc = "done" => (cached <=> compiled # NoCache)
    /\ pc = "done" /\ cached => result = NfaCall(to_nfa(tree), string, full)

\* The right side of the con is compiled; the con still matches it from
\* the offset where it stands, not through its automaton.
C25_Witness ==
  /\ Matched
  /\ tree = con(lit(2), rep(lit(1)))
  /\ attached = {rep(lit(1))}
  /\ string = <<2, 1, 1>>
  /\ full
  /\ result = 3

====
